---- MODULE Spec2Model ----
(***************************************************************************)
(* Model of the resilience primitives of src/sbtech/src/lib/error-recovery *)
(* .ts: the CircuitBreaker class (execute / onSuccess / onFailure /        *)
(* getState) under interleaved asynchronous callers, and the retry loop.   *)
(***************************************************************************)
EXTENDS Integers, Sequences, FiniteSets, TLC

(***************************************************************************)
(* Bounds of the model.                                                    *)
(***************************************************************************)
\* number of execute() calls that may be in flight on one breaker
NumCallers == 2
\* the clock stops advancing past this value (epoch milliseconds)
MaxNow == 130000
\* largest maxAttempts option handed to retry
MaxAttemptsBound == 4
\* number of fetchWithFallback calls that may be in flight
NumFetchers == 2
\* number of words of an error message
MaxWords == 2
\* the server clock stops advancing past this value (epoch milliseconds)
MaxClock == 61000
\* number of lines the backend log is followed for
MaxBackendLines == 1
\* browser time stops advancing past this value (milliseconds)
MaxBrowserTime == 7500
\* number of timeouts a run of the provider may set
MaxShows == 3
\* number of times the provider is mounted
MaxMounts == 2
\* number of nested calls after which the call stack is exhausted
MaxStackDepth == 3
\* number of POST requests followed through the ingestion endpoint
NumRequests == 2
MaxDebounceNow == 15000

(***************************************************************************)
(* Program constants.                                                      *)
(***************************************************************************)
\* constructor default: private failureThreshold = 5
failureThreshold == 5
\* constructor default: private resetTimeout = 60000
resetTimeout == 60000

Callers == 1..NumCallers
\* errors an operation may reject with, values it may resolve to
OpErrors == {"e1", "e2"}
OpValues == {"v1"}
\* new Error('Circuit breaker is OPEN')
CircuitOpenError == "Circuit breaker is OPEN"
\* amounts by which Date.now() moves between two steps
TickSteps == {resetTimeout \div 2, resetTimeout \div 2 + 1}

VARIABLES
  \* CircuitBreaker fields
  state, failures, lastFailureTime,
  \* Date.now()
  now,
  \* per caller: position inside execute, settled promise, what fn did
  pc, result, fnOutcome,
  \* history: operation failures since the last operation success, and the
  \* value state had when the latest step of execute began
  consecFails, prevState

cbVars == <<state, failures, lastFailureTime, now, pc, result, fnOutcome, consecFails, prevState>>

VARIABLES
  \* retry options: maxAttempts, delay, backoff, and whether onRetry is supplied
  maxAttempts, delay, backoff, onRetry,
  \* retry locals: the loop counter and lastError
  attempt, lastError,
  \* position inside retry, its settled promise, and everything it did in order
  rpc, retryResult, log

retryVars == <<maxAttempts, delay, backoff, onRetry, attempt, lastError, rpc, retryResult, log>>

VARIABLES
  \* const fallbackCache = new Map<string, any>()
  fallbackCache,
  \* per fetchWithFallback call: position, fallbackKey argument, what the live
  \* request did, and the settled promise
  fpc, fkey, flive, fresult,
  \* history: per key argument, the payload of the latest successful call
  lastGood

fbVars == <<fallbackCache, fpc, fkey, flive, fresult, lastGood>>

VARIABLES
  \* safeAsync: position, the fallback argument, how often operation was
  \* invoked, what it did, and the settled promise
  spc, sfallback, sopCalls, sopOutcome, sresult

safeVars == <<spc, sfallback, sopCalls, sopOutcome, sresult>>

VARIABLES
  \* error.message as a sequence of characters, and the words it was put
  \* together from
  message, words,
  \* what classifyError(error) and getUserFriendlyMessage(error) returned
  classified, friendly

classifyVars == <<message, words, classified, friendly>>

VARIABLES
  \* const rateLimitStore = new Map<string, { count, resetTime }>()
  rateLimitStore,
  \* Date.now() on the server, and the time the cleanup interval is next due
  clock, nextSweep,
  \* the latest checkRateLimit call not yet answered: its key and its result
  verdict,
  \* history: per key, the times of the requests admitted during the last
  \* windowMs milliseconds
  admitTimes

limiterVars == <<rateLimitStore, clock, nextSweep, verdict, admitTimes>>

VARIABLES
  \* per POST request: where the handler stands ("idle" before the request
  \* arrives, "json" at `await request.json()`, "done" once it has answered)
  postPc,
  \* const ip, and the NextResponse the handler returned
  postIp, response,
  \* history: the body request.json() delivered (empty if it rejected) and
  \* the file-system call that threw while the request was handled
  postBody, postFault,
  \* logs/frontend-errors.log, one element per line, and whether logs/ exists
  clientLog, logDirExists

ingestVars == <<postPc, postIp, response, postBody, postFault, clientLog, logDirExists>>

VARIABLES
  \* process.env.NODE_ENV of the server process
  nodeEnv,
  \* logs/backend-errors.log, one element per line
  backendLog,
  \* what the latest call of a withErrorHandler wrapper came to, and the value
  \* its handler threw
  apiResponse, apiThrown,
  \* the server process has ended (process.exit(1), or a hook that threw)
  processExited

backendVars == <<nodeEnv, backendLog, apiResponse, apiThrown, processExited>>

VARIABLES
  \* which ErrorProvider the page uses, the NODE_ENV of the client build and
  \* the maxMessageLength prop
  variant, clientEnv, maxLengthProp,
  \* the provider is mounted; the number of the component instance
  mounted, instance,
  \* useState: error, notificationType, clearTimeoutRef (0 for null)
  notification, notificationType, clearTimeoutRef,
  \* the timeouts that are set and have neither fired nor been cleared
  timers, nextTimer,
  \* performance time in the browser
  browserNow,
  \* handlers registered on window for 'error' and 'unhandledrejection', and
  \* whether console.error is the provider's replacement
  errorListeners, rejectionListeners, consoleOverridden,
  \* history: the latest show call (its message and time; "none" after
  \* clearError or a mount)
  shown,
  \* history: the latest captured event (reports forwarded for it, whether
  \* its handler threw, how the transport ended)
  captured

providerVars ==
  <<variant, clientEnv, maxLengthProp, mounted, instance, notification,
    notificationType, clearTimeoutRef, timers, nextTimer, browserNow,
    errorListeners, rejectionListeners, consoleOverridden, shown, captured>>

VARIABLES
  \* const errorReportQueue = new Map<string, number>(): per key the time of
  \* the latest report, NoReport where the map has no entry
  errorReportQueue,
  \* Date.now() where debouncedErrorReport runs
  debounceNow,
  \* history: per key the times at which reportFn was invoked, and the latest
  \* call of debouncedErrorReport (its key, its time, what came of it)
  reported, lastReportCall

debounceVars == <<errorReportQueue, debounceNow, reported, lastReportCall>>

vars ==
  <<cbVars, retryVars, fbVars, safeVars, classifyVars, limiterVars, ingestVars, backendVars,
    providerVars, debounceVars>>

\* the variables of the components other than the one named
nonBreakerVars == <<retryVars, fbVars, safeVars, classifyVars, limiterVars, ingestVars, backendVars,
    providerVars, debounceVars>>
nonRetryVars == <<cbVars, fbVars, safeVars, classifyVars, limiterVars, ingestVars, backendVars,
    providerVars, debounceVars>>
nonFallbackVars == <<cbVars, retryVars, safeVars, classifyVars, limiterVars, ingestVars, backendVars,
    providerVars, debounceVars>>
nonSafeVars == <<cbVars, retryVars, fbVars, classifyVars, limiterVars, ingestVars, backendVars,
    providerVars, debounceVars>>
nonClassifyVars == <<cbVars, retryVars, fbVars, safeVars, limiterVars, ingestVars, backendVars,
    providerVars, debounceVars>>
nonLimiterVars == <<cbVars, retryVars, fbVars, safeVars, classifyVars, ingestVars, backendVars,
    providerVars, debounceVars>>
\* POST calls checkRateLimit, so the limiter is part of the endpoint
nonIngestVars == <<cbVars, retryVars, fbVars, safeVars, classifyVars, backendVars, providerVars, debounceVars>>
\* the backend hooks write into the logs directory of the endpoint
nonBackendVars == <<cbVars, retryVars, fbVars, safeVars, classifyVars, providerVars, debounceVars>>
nonProviderVars ==
  <<cbVars, retryVars, fbVars, safeVars, classifyVars, limiterVars, ingestVars, backendVars,
    debounceVars>>
nonDebounceVars ==
  <<cbVars, retryVars, fbVars, safeVars, classifyVars, limiterVars, ingestVars, backendVars,
    providerVars>>

(***************************************************************************)
(* CircuitBreaker                                                          *)
(***************************************************************************)
InitBreaker ==
  /\ state = "CLOSED"
  /\ failures = 0
  /\ lastFailureTime = 0
  /\ now = 0
  /\ pc = [c \in Callers |-> "idle"]
  /\ result = [c \in Callers |-> <<"none">>]
  /\ fnOutcome = [c \in Callers |-> <<"notInvoked">>]
  /\ consecFails = 0
  /\ prevState = "CLOSED"

getState == state

\* Date.now() - this.lastFailureTime > this.resetTimeout
timeoutElapsed_ge == now - lastFailureTime >= resetTimeout

timeoutElapsed == now - lastFailureTime > resetTimeout

\* this.failures = 0; this.state = 'CLOSED'
onSuccess_keepFailures ==
  /\ failures' = failures
  /\ state' = "CLOSED"

onSuccess_keepState ==
  /\ failures' = 0
  /\ state' = state

onSuccess ==
  /\ failures' = 0
  /\ state' = "CLOSED"

\* this.failures++; this.lastFailureTime = Date.now();
\* if (this.failures >= this.failureThreshold) this.state = 'OPEN'
onFailure_gt ==
  /\ failures' = failures + 1
  /\ lastFailureTime' = now
  /\ state' = IF failures + 1 > failureThreshold THEN "OPEN" ELSE state

onFailure_freshCount ==
  /\ failures' = IF state = "HALF_OPEN" THEN 1 ELSE failures + 1
  /\ lastFailureTime' = now
  /\ state' = IF failures' >= failureThreshold THEN "OPEN" ELSE state

onFailure ==
  /\ failures' = failures + 1
  /\ lastFailureTime' = now
  /\ state' = IF failures + 1 >= failureThreshold THEN "OPEN" ELSE state

\* catch (error) { this.onFailure(); throw error; }
rethrown_generic(error) == <<"thrown", CircuitOpenError>>

rethrown(error) == <<"thrown", error>>

\* execute(fn) up to its first suspension: the OPEN gate, then fn() is called
ExecuteCall(c) ==
  /\ pc[c] = "idle"
  /\ IF state = "OPEN" /\ ~timeoutElapsed
       THEN \* throw new Error('Circuit breaker is OPEN')
            /\ pc' = [pc EXCEPT ![c] = "done"]
            /\ result' = [result EXCEPT ![c] = <<"thrown", CircuitOpenError>>]
            /\ UNCHANGED <<state, fnOutcome>>
       ELSE /\ state' = IF state = "OPEN" THEN "HALF_OPEN" ELSE state
            /\ pc' = [pc EXCEPT ![c] = "awaiting"]
            /\ fnOutcome' = [fnOutcome EXCEPT ![c] = <<"pending">>]
            /\ UNCHANGED result
  /\ prevState' = state
  /\ UNCHANGED <<failures, lastFailureTime, now, consecFails>>
  /\ UNCHANGED nonBreakerVars

\* await fn() resolves: this.onSuccess(); return result
ExecuteResolve(c) ==
  /\ pc[c] = "awaiting"
  /\ \E v \in OpValues :
       /\ fnOutcome' = [fnOutcome EXCEPT ![c] = <<"ok", v>>]
       /\ result' = [result EXCEPT ![c] = <<"returned", v>>]
  /\ onSuccess
  /\ pc' = [pc EXCEPT ![c] = "done"]
  /\ consecFails' = 0
  /\ prevState' = state
  /\ UNCHANGED <<lastFailureTime, now>>
  /\ UNCHANGED nonBreakerVars

\* await fn() rejects: this.onFailure(); throw error
ExecuteReject(c) ==
  /\ pc[c] = "awaiting"
  /\ \E e \in OpErrors :
       /\ fnOutcome' = [fnOutcome EXCEPT ![c] = <<"err", e>>]
       /\ result' = [result EXCEPT ![c] = rethrown(e)]
  /\ onFailure
  /\ pc' = [pc EXCEPT ![c] = "done"]
  /\ consecFails' = consecFails + 1
  /\ prevState' = state
  /\ UNCHANGED now
  /\ UNCHANGED nonBreakerVars

\* the caller takes the settled promise and may call execute again
Settled(c) ==
  /\ pc[c] = "done"
  /\ pc' = [pc EXCEPT ![c] = "idle"]
  /\ result' = [result EXCEPT ![c] = <<"none">>]
  /\ fnOutcome' = [fnOutcome EXCEPT ![c] = <<"notInvoked">>]
  /\ UNCHANGED <<state, failures, lastFailureTime, now, consecFails, prevState>>
  /\ UNCHANGED nonBreakerVars

\* time passes; nothing in the breaker runs on a timer
Tick ==
  /\ \E d \in TickSteps :
       /\ now + d <= MaxNow
       /\ now' = now + d
  /\ UNCHANGED <<state, failures, lastFailureTime, pc, result, fnOutcome, consecFails, prevState>>
  /\ UNCHANGED nonBreakerVars

NextBreaker ==
  \/ \E c \in Callers : ExecuteCall(c)
  \/ \E c \in Callers : ExecuteResolve(c)
  \/ \E c \in Callers : ExecuteReject(c)
  \/ \E c \in Callers : Settled(c)
  \/ Tick

(***************************************************************************)
(* retry                                                                   *)
(***************************************************************************)
\* option defaults: maxAttempts = 3, delay = 1000, backoff = true
defaultMaxAttempts == 3
defaultDelay == 1000

AttemptChoices == -1..MaxAttemptsBound
DelayChoices == {0, 1, defaultDelay}
\* let lastError: Error;  (declared, not assigned)
Undefined == "undefined"
\* what a throwing onRetry callback raises
OnRetryError == "onRetryError"

RECURSIVE Pow(_, _)
\* Math.pow(base, exp) for a non-negative integer exponent
Pow(base, exp) == IF exp <= 0 THEN 1 ELSE base * Pow(base, exp - 1)

RetryLocalsInit ==
  /\ attempt = 0
  /\ lastError = Undefined
  /\ rpc = "init"
  /\ retryResult = <<"none">>
  /\ log = <<>>

\* retry is not running: the options hold their defaults
RetryNotCalled ==
  /\ maxAttempts = defaultMaxAttempts
  /\ delay = defaultDelay
  /\ backoff = TRUE
  /\ onRetry = FALSE
  /\ RetryLocalsInit

InitRetry ==
  /\ maxAttempts \in AttemptChoices
  /\ delay \in DelayChoices
  /\ backoff \in BOOLEAN
  /\ onRetry \in BOOLEAN
  /\ RetryLocalsInit

\* attempt <= maxAttempts
loopCondition(a) == a <= maxAttempts

\* if (attempt === maxAttempts) throw lastError
isLastAttempt_never(a) == a = maxAttempts + 1

isLastAttempt(a) == a = maxAttempts

\* backoff ? delay * Math.pow(2, attempt - 1) : delay
currentDelay_offByOne(a) == IF backoff THEN delay * Pow(2, a) ELSE delay

currentDelay(a) == IF backoff THEN delay * Pow(2, a - 1) ELSE delay

\* the for statement's test with the counter at a: run the body (call fn and
\* suspend on it) or leave the loop and reach  throw lastError!
LoopHead(a) ==
  /\ attempt' = a
  /\ IF loopCondition(a)
       THEN /\ log' = Append(log, <<"fn", a>>)
            /\ rpc' = "awaitFn"
            /\ UNCHANGED retryResult
       ELSE /\ rpc' = "thrown"
            /\ retryResult' = <<"thrown", lastError>>
            /\ UNCHANGED log

\* retry(fn, options) is called: let attempt = 1
RetryStart ==
  /\ rpc = "init"
  /\ LoopHead(1)
  /\ UNCHANGED <<maxAttempts, delay, backoff, onRetry, lastError>>
  /\ UNCHANGED nonRetryVars

\* return await fn()  with fn resolved to v
returnAwait_continue(v) ==
  /\ log' = Append(Append(log, <<"ok", attempt, v>>), <<"fn", attempt + 1>>)
  /\ attempt' = attempt + 1
  /\ rpc' = "awaitFn"
  /\ UNCHANGED retryResult

returnAwait(v) ==
  /\ log' = Append(log, <<"ok", attempt, v>>)
  /\ rpc' = "returned"
  /\ retryResult' = <<"returned", v>>
  /\ UNCHANGED attempt

FnResolve ==
  /\ rpc = "awaitFn"
  /\ \E v \in OpValues : returnAwait(v)
  /\ UNCHANGED <<maxAttempts, delay, backoff, onRetry, lastError>>
  /\ UNCHANGED nonRetryVars

\* catch (error): fn rejected with e
FnReject ==
  /\ rpc = "awaitFn"
  /\ \E e \in OpErrors :
       /\ lastError' = e
       /\ IF isLastAttempt(attempt)
            THEN \* throw lastError
                 /\ log' = Append(log, <<"err", attempt, e>>)
                 /\ rpc' = "thrown"
                 /\ retryResult' = <<"thrown", e>>
            ELSE IF onRetry
              THEN \* onRetry(attempt, lastError) returns, or throws out of retry
                   \/ /\ log' = log \o << <<"err", attempt, e>>,
                                          <<"onRetry", attempt, e>>,
                                          <<"wait", attempt, currentDelay(attempt)>> >>
                      /\ rpc' = "sleep"
                      /\ UNCHANGED retryResult
                   \/ /\ log' = log \o << <<"err", attempt, e>>,
                                          <<"onRetry", attempt, e>> >>
                      /\ rpc' = "thrown"
                      /\ retryResult' = <<"thrown", OnRetryError>>
              ELSE /\ log' = log \o << <<"err", attempt, e>>,
                                       <<"wait", attempt, currentDelay(attempt)>> >>
                   /\ rpc' = "sleep"
                   /\ UNCHANGED retryResult
  /\ UNCHANGED <<maxAttempts, delay, backoff, onRetry, attempt>>
  /\ UNCHANGED nonRetryVars

\* the setTimeout of the wait fires: attempt++ and the loop test
TimerFires ==
  /\ rpc = "sleep"
  /\ LoopHead(attempt + 1)
  /\ UNCHANGED <<maxAttempts, delay, backoff, onRetry, lastError>>
  /\ UNCHANGED nonRetryVars

NextRetry ==
  \/ RetryStart
  \/ FnResolve
  \/ FnReject
  \/ TimerFires

(***************************************************************************)
(* fetchWithFallback                                                       *)
(***************************************************************************)
Fetchers == 1..NumFetchers
\* the fallbackKey argument: left out (undefined), the empty string, or a name
NoKey == "undefined"
KeyArgs == {NoKey, "", "k1", "k2"}
\* what response.json() resolves to (null is a JSON document too)
Payloads == {"null", "p1"}
\* how the live request fails: fetch rejects, !response.ok, response.json() rejects
LiveFailures == {"TypeError: fetch failed", "HTTP 500: Internal Server Error", "SyntaxError: Unexpected token"}
\* fallbackCache.get of a key that was never set
NoEntry == "absent"

FallbackIdle ==
  /\ fallbackCache = [k \in KeyArgs \ {NoKey} |-> NoEntry]
  /\ fpc = [c \in Fetchers |-> "idle"]
  /\ fkey = [c \in Fetchers |-> NoKey]
  /\ flive = [c \in Fetchers |-> <<"none">>]
  /\ fresult = [c \in Fetchers |-> <<"none">>]
  /\ lastGood = [k \in KeyArgs \ {NoKey} |-> NoEntry]

\* if (fallbackKey): undefined and '' are falsy
keySupplied_defined(k) == k # NoKey

keySupplied(k) == k # NoKey /\ k # ""

\* fallbackCache.has(fallbackKey)
cacheHas(k) == fallbackCache[k] # NoEntry

\* if (fallbackKey) fallbackCache.set(fallbackKey, data)
cacheAfterSuccess_noStore(k, data) == fallbackCache

cacheAfterSuccess(k, data) ==
  IF keySupplied(k) THEN [fallbackCache EXCEPT ![k] = data] ELSE fallbackCache

\* catch (error): the cached payload if fallbackKey && fallbackCache.has(fallbackKey),
\* else throw error
afterFailure_anyEntry(k, error) ==
  IF \E k2 \in DOMAIN fallbackCache : fallbackCache[k2] # NoEntry
    THEN <<"returned", fallbackCache[CHOOSE k2 \in DOMAIN fallbackCache : fallbackCache[k2] # NoEntry]>>
    ELSE <<"thrown", error>>

afterFailure(k, error) ==
  IF keySupplied(k) /\ cacheHas(k)
    THEN <<"returned", fallbackCache[k]>>
    ELSE <<"thrown", error>>

\* fetchWithFallback(url, options, fallbackKey) up to  await fetch(url, options)
FetchCall(c) ==
  /\ fpc[c] = "idle"
  /\ \E k \in KeyArgs : fkey' = [fkey EXCEPT ![c] = k]
  /\ fpc' = [fpc EXCEPT ![c] = "fetching"]
  /\ flive' = [flive EXCEPT ![c] = <<"pending">>]
  /\ UNCHANGED <<fallbackCache, fresult, lastGood>>
  /\ UNCHANGED nonFallbackVars

\* the response is ok and its body parses to data
FetchSucceeds(c) ==
  /\ fpc[c] = "fetching"
  /\ \E data \in Payloads :
       /\ fallbackCache' = cacheAfterSuccess(fkey[c], data)
       /\ flive' = [flive EXCEPT ![c] = <<"ok", data>>]
       /\ fresult' = [fresult EXCEPT ![c] = <<"returned", data>>]
       /\ lastGood' = IF fkey[c] = NoKey THEN lastGood
                      ELSE [lastGood EXCEPT ![fkey[c]] = data]
  /\ fpc' = [fpc EXCEPT ![c] = "done"]
  /\ UNCHANGED fkey
  /\ UNCHANGED nonFallbackVars

\* fetch rejects, the status is not ok, or the body does not parse
FetchFails(c) ==
  /\ fpc[c] = "fetching"
  /\ \E error \in LiveFailures :
       /\ flive' = [flive EXCEPT ![c] = <<"err", error>>]
       /\ fresult' = [fresult EXCEPT ![c] = afterFailure(fkey[c], error)]
  /\ fpc' = [fpc EXCEPT ![c] = "done"]
  /\ UNCHANGED <<fallbackCache, fkey, lastGood>>
  /\ UNCHANGED nonFallbackVars

\* the caller takes the settled promise and may call again
FetchSettled(c) ==
  /\ fpc[c] = "done"
  /\ fpc' = [fpc EXCEPT ![c] = "idle"]
  /\ fkey' = [fkey EXCEPT ![c] = NoKey]
  /\ flive' = [flive EXCEPT ![c] = <<"none">>]
  /\ fresult' = [fresult EXCEPT ![c] = <<"none">>]
  /\ UNCHANGED <<fallbackCache, lastGood>>
  /\ UNCHANGED nonFallbackVars

NextFallback ==
  \/ \E c \in Fetchers : FetchCall(c)
  \/ \E c \in Fetchers : FetchSucceeds(c)
  \/ \E c \in Fetchers : FetchFails(c)
  \/ \E c \in Fetchers : FetchSettled(c)

(***************************************************************************)
(* safeAsync                                                               *)
(***************************************************************************)
\* results of operation and values handed in as fallback
SafeValues == {"r1", "r2", "r3", "r4", "fb1", "fb2", "null", "undefined"}
SafeErrors == {"e1", "e2", "TypeError"}

SafeLocalsInit ==
  /\ spc = "init"
  /\ sopCalls = 0
  /\ sopOutcome = <<"none">>
  /\ sresult = <<"none">>

SafeIdle ==
  /\ sfallback = "null"
  /\ SafeLocalsInit

InitSafe ==
  /\ sfallback \in SafeValues
  /\ SafeLocalsInit

\* catch (error) { console.error(errorMessage, error); return fallback; }
safeCatch_rethrow(error) == <<"thrown", error>>

safeCatch(error) == <<"returned", sfallback>>

\* safeAsync(operation, fallback): operation() is called; it returns a promise
\* and safeAsync suspends on it, or it throws at once and the catch runs
SafeCall ==
  /\ spc = "init"
  /\ sopCalls' = sopCalls + 1
  /\ \/ /\ spc' = "awaiting"
        /\ sopOutcome' = <<"pending">>
        /\ UNCHANGED sresult
     \/ \E e \in SafeErrors :
          /\ spc' = "done"
          /\ sopOutcome' = <<"threw", e>>
          /\ sresult' = safeCatch(e)
  /\ UNCHANGED sfallback
  /\ UNCHANGED nonSafeVars

\* return await operation()  with the promise resolved
SafeResolves ==
  /\ spc = "awaiting"
  /\ \E v \in SafeValues :
       /\ sopOutcome' = <<"ok", v>>
       /\ sresult' = <<"returned", v>>
  /\ spc' = "done"
  /\ UNCHANGED <<sfallback, sopCalls>>
  /\ UNCHANGED nonSafeVars

\* the promise rejected: the catch block
SafeRejects ==
  /\ spc = "awaiting"
  /\ \E e \in SafeErrors :
       /\ sopOutcome' = <<"err", e>>
       /\ sresult' = safeCatch(e)
  /\ spc' = "done"
  /\ UNCHANGED <<sfallback, sopCalls>>
  /\ UNCHANGED nonSafeVars

NextSafe ==
  \/ SafeCall
  \/ SafeResolves
  \/ SafeRejects

(***************************************************************************)
(* classifyError / getUserFriendlyMessage                                  *)
(***************************************************************************)
\* words an error message is made of, each with the category whose keyword it
\* holds (as a whole word, inside a longer word, in any letter case)
Vocabulary ==
    {[text |-> <<"f", "e", "t", "c", "h">>, holds |-> "network"],
     [text |-> <<"N", "E", "T", "W", "O", "R", "K">>, holds |-> "network"],
     [text |-> <<"T", "i", "m", "e", "o", "u", "t">>, holds |-> "network"],
     [text |-> <<"p", "r", "e", "f", "e", "t", "c", "h", "e", "d">>, holds |-> "network"],
     [text |-> <<"V", "a", "l", "i", "d", "a", "t", "i", "o", "n">>, holds |-> "validation"],
     [text |-> <<"I", "N", "V", "A", "L", "I", "D">>, holds |-> "validation"],
     [text |-> <<"5", "0", "0">>, holds |-> "server"],
     [text |-> <<"S", "e", "r", "v", "e", "r">>, holds |-> "server"],
     [text |-> <<"o", "b", "s", "e", "r", "v", "e", "r">>, holds |-> "server"],
     [text |-> <<"o", "o", "p", "s">>, holds |-> "unknown"],
     [text |-> <<"w", "h", "a", "t", "e", "v", "e", "r">>, holds |-> "unknown"]}

UpperCase == <<"A", "B", "C", "D", "E", "F", "G", "H", "I", "J", "K", "L", "M",
               "N", "O", "P", "Q", "R", "S", "T", "U", "V", "W", "X", "Y", "Z">>
LowerCase == <<"a", "b", "c", "d", "e", "f", "g", "h", "i", "j", "k", "l", "m",
               "n", "o", "p", "q", "r", "s", "t", "u", "v", "w", "x", "y", "z">>

\* String.prototype.toLowerCase
lowerChar(ch) ==
  IF \E i \in 1..26 : UpperCase[i] = ch
    THEN LowerCase[CHOOSE i \in 1..26 : UpperCase[i] = ch]
    ELSE ch

toLowerCase_identity(str) == str

toLowerCase(str) == [i \in 1..Len(str) |-> lowerChar(str[i])]

\* String.prototype.includes
includes(str, search) ==
  \E i \in 0..(Len(str) - Len(search)) :
    \A j \in 1..Len(search) : str[i + j] = search[j]

kwFetch == <<"f", "e", "t", "c", "h">>
kwNetwork == <<"n", "e", "t", "w", "o", "r", "k">>
kwTimeout == <<"t", "i", "m", "e", "o", "u", "t">>
kwValidation == <<"v", "a", "l", "i", "d", "a", "t", "i", "o", "n">>
kwInvalid == <<"i", "n", "v", "a", "l", "i", "d">>
kw500 == <<"5", "0", "0">>
kwServer == <<"s", "e", "r", "v", "e", "r">>

classifyError_validationFirst(msg) ==
  LET m == toLowerCase(msg) IN
    IF includes(m, kwValidation) \/ includes(m, kwInvalid) THEN "validation"
    ELSE IF includes(m, kwFetch) \/ includes(m, kwNetwork) \/ includes(m, kwTimeout) THEN "network"
    ELSE IF includes(m, kw500) \/ includes(m, kwServer) THEN "server"
    ELSE "unknown"

classifyError(msg) ==
  LET m == toLowerCase(msg) IN
    IF includes(m, kwFetch) \/ includes(m, kwNetwork) \/ includes(m, kwTimeout) THEN "network"
    ELSE IF includes(m, kwValidation) \/ includes(m, kwInvalid) THEN "validation"
    ELSE IF includes(m, kw500) \/ includes(m, kwServer) THEN "server"
    ELSE "unknown"

sentenceNetwork == "Connection failed. Please check your internet connection and try again."
sentenceValidation == "Invalid input. Please check your data and try again."
sentenceServer == "Server error. Please try again later."
sentenceDefault == "Something went wrong. Please try again."

getUserFriendlyMessage_echo(msg) ==
  LET type == classifyError(msg) IN
    CASE type = "network" -> sentenceNetwork
      [] type = "validation" -> sentenceValidation
      [] type = "server" -> sentenceServer
      [] OTHER -> msg

getUserFriendlyMessage(msg) ==
  LET type == classifyError(msg) IN
    CASE type = "network" -> sentenceNetwork
      [] type = "validation" -> sentenceValidation
      [] type = "server" -> sentenceServer
      [] OTHER -> sentenceDefault

RECURSIVE Join(_)
\* the words of ws separated by single spaces
Join(ws) ==
  IF Len(ws) = 0 THEN <<>>
  ELSE IF Len(ws) = 1 THEN ws[1].text
  ELSE ws[1].text \o <<" ">> \o Join(Tail(ws))

WordSeqs == UNION {[1..n -> Vocabulary] : n \in 0..MaxWords}

NotCalled == "not called"

ClassifyIdle ==
  /\ words = <<>>
  /\ message = <<>>
  /\ classified = NotCalled
  /\ friendly = NotCalled

InitClassify ==
  /\ words \in WordSeqs
  /\ message = Join(words)
  /\ classified = NotCalled
  /\ friendly = NotCalled

ClassifyError ==
  /\ classified = NotCalled
  /\ classified' = classifyError(message)
  /\ UNCHANGED <<message, words, friendly>>
  /\ UNCHANGED nonClassifyVars

GetUserFriendlyMessage ==
  /\ friendly = NotCalled
  /\ friendly' = getUserFriendlyMessage(message)
  /\ UNCHANGED <<message, words, classified>>
  /\ UNCHANGED nonClassifyVars

NextClassify ==
  \/ ClassifyError
  \/ GetUserFriendlyMessage

(***************************************************************************)
(* Rate limiter of the ingestion endpoint (app/api route, checkRateLimit)  *)
(***************************************************************************)
\* const windowMs = 60 * 1000
windowMs == 60 * 1000
\* const maxRequests = 10
maxRequests == 10
\* setInterval(..., 5 * 60 * 1000)
sweepIntervalMs == 5 * 60 * 1000

\* request.ip || request.headers.get('x-forwarded-for') || 'unknown'
ClientKeys == {"10.0.0.1", "unknown"}
\* rateLimitStore.get(ip) of a key that is not in the map
NoRecord == [count |-> 0, resetTime |-> -1]
NoVerdict == <<"none">>
\* amounts by which the server clock moves between two steps
ClockSteps == {windowMs \div 2, windowMs \div 2 + 1}
\* when the cleanup interval first comes due, counted from the first request
SweepPhases == {windowMs \div 2, windowMs + 1, sweepIntervalMs}

LimiterIdle ==
  /\ rateLimitStore = [k \in ClientKeys |-> NoRecord]
  /\ clock = 0
  /\ nextSweep = sweepIntervalMs
  /\ verdict = NoVerdict
  /\ admitTimes = [k \in ClientKeys |-> <<>>]

InitLimiter ==
  /\ rateLimitStore = [k \in ClientKeys |-> NoRecord]
  /\ clock = 0
  /\ nextSweep \in SweepPhases
  /\ verdict = NoVerdict
  /\ admitTimes = [k \in ClientKeys |-> <<>>]

\* !record || now > record.resetTime
startsWindow_ge(ip) ==
  \/ rateLimitStore[ip] = NoRecord
  \/ clock >= rateLimitStore[ip].resetTime

startsWindow(ip) ==
  \/ rateLimitStore[ip] = NoRecord
  \/ clock > rateLimitStore[ip].resetTime

\* record.count >= maxRequests
limitReached_gt(ip) == rateLimitStore[ip].count > maxRequests

limitReached(ip) == rateLimitStore[ip].count >= maxRequests

\* the boolean checkRateLimit(ip) returns
checkRateLimit(ip) == startsWindow(ip) \/ ~limitReached(ip)

\* rateLimitStore once checkRateLimit(ip) has returned
storeAfterCheck_keepCount(ip) ==
  IF startsWindow(ip)
    THEN [rateLimitStore EXCEPT ![ip] =
            [count |-> rateLimitStore[ip].count + 1, resetTime |-> clock + windowMs]]
  ELSE IF limitReached(ip) THEN rateLimitStore
  ELSE [rateLimitStore EXCEPT ![ip].count = @ + 1]

storeAfterCheck(ip) ==
  IF startsWindow(ip)
    THEN [rateLimitStore EXCEPT ![ip] = [count |-> 1, resetTime |-> clock + windowMs]]
  ELSE IF limitReached(ip) THEN rateLimitStore
  ELSE [rateLimitStore EXCEPT ![ip].count = @ + 1]

\* the admitted requests of the last windowMs milliseconds, seen at time t
Recent(times, t) == SelectSeq(times, LAMBDA x : x >= t - windowMs)

admitTimesAfterCheck(ip) ==
  IF checkRateLimit(ip)
    THEN [admitTimes EXCEPT ![ip] = Append(@, clock)]
    ELSE admitTimes

\* POST up to the rate-limit decision
CheckRateLimit(ip) ==
  /\ verdict = NoVerdict
  /\ verdict' = <<ip, checkRateLimit(ip)>>
  /\ rateLimitStore' = storeAfterCheck(ip)
  /\ admitTimes' = admitTimesAfterCheck(ip)
  /\ UNCHANGED <<clock, nextSweep>>
  /\ UNCHANGED nonLimiterVars

\* POST goes on with the decision (a 429 response, or the body is read)
Decided ==
  /\ verdict # NoVerdict
  /\ verdict' = NoVerdict
  /\ UNCHANGED <<rateLimitStore, clock, nextSweep, admitTimes>>
  /\ UNCHANGED nonLimiterVars

\* the setInterval callback: delete every record with now > record.resetTime
sweptStore_all == [k \in ClientKeys |-> NoRecord]

sweptStore ==
  [k \in ClientKeys |->
     IF rateLimitStore[k] # NoRecord /\ clock > rateLimitStore[k].resetTime
       THEN NoRecord
       ELSE rateLimitStore[k]]

Sweep ==
  /\ clock >= nextSweep
  /\ rateLimitStore' = sweptStore
  /\ nextSweep' = nextSweep + sweepIntervalMs
  /\ UNCHANGED <<clock, verdict, admitTimes>>
  /\ UNCHANGED nonLimiterVars

\* time passes on the server
TickLimiter ==
  /\ \E d \in ClockSteps :
       /\ clock + d <= MaxClock
       /\ clock' = clock + d
       /\ admitTimes' = [k \in ClientKeys |-> Recent(admitTimes[k], clock + d)]
  /\ UNCHANGED <<rateLimitStore, nextSweep, verdict>>
  /\ UNCHANGED nonLimiterVars

NextRateLimit ==
  \/ \E ip \in ClientKeys : CheckRateLimit(ip)
  \/ Decided
  \/ Sweep
  \/ TickLimiter

(***************************************************************************)
(* Ingestion endpoint (app/api route, POST)                                *)
(***************************************************************************)
Requests == 1..NumRequests

\* a JSON value of a body field: its kind and what the schema looks at
Absent(v) == [kind |-> "undefined", v |-> v]
String(v) == [kind |-> "string", v |-> v]
Number(v) == [kind |-> "number", v |-> v]

\* message: z.string().max(1000); a message is modelled by its length
maxMessageLength == 1000
\* an absolute and a relative address, in the pieces a URL parser looks at
AbsoluteUrl == <<"https", ":", "//sbtech.example/contact">>
RelativeUrl == <<"/contact">>

WellFormed ==
  [message |-> String(12), url |-> String(AbsoluteUrl),
   timestamp |-> Number(1700000000), type |-> String("error")]

\* the bodies request.json() can deliver
Bodies ==
  { WellFormed,
    [WellFormed EXCEPT !.message = String(maxMessageLength),
                       !.type = String("unhandledrejection")],
    [WellFormed EXCEPT !.message = Absent(0)],
    [WellFormed EXCEPT !.message = String(maxMessageLength + 1)],
    [WellFormed EXCEPT !.url = String(RelativeUrl)],
    [WellFormed EXCEPT !.timestamp = Absent(0)],
    [WellFormed EXCEPT !.type = String("backend")] }

\* z.string().url(): the address has a scheme in front of a colon
isUrl(parts) == Len(parts) >= 2 /\ parts[2] = ":"

\* ErrorLogSchema.parse(body) does not throw
ErrorLogSchema_anyType(body) ==
  /\ body.message.kind = "string" /\ body.message.v <= maxMessageLength
  /\ body.url.kind = "string" /\ isUrl(body.url.v)
  /\ body.timestamp.kind = "number"
  /\ body.type.kind = "string"

ErrorLogSchema(body) ==
  /\ body.message.kind = "string" /\ body.message.v <= maxMessageLength
  /\ body.url.kind = "string" /\ isUrl(body.url.v)
  /\ body.timestamp.kind = "number"
  /\ body.type.kind = "string" /\ body.type.v \in {"error", "unhandledrejection"}

\* request.ip and the x-forwarded-for header as they may arrive
RequestIps == {"undefined", "10.0.0.1"}
ForwardedFor == {"null", "", "10.0.0.1"}
truthy(x) == x \notin {"undefined", "null", ""}
\* request.ip || request.headers.get('x-forwarded-for') || 'unknown'
clientIp(requestIp, forwarded) ==
  IF truthy(requestIp) THEN requestIp
  ELSE IF truthy(forwarded) THEN forwarded
  ELSE "unknown"

\* { ...validatedData, ip, serverTimestamp: Date.now() }
errorLog(body, ip) ==
  [message |-> body.message, url |-> body.url, timestamp |-> body.timestamp,
   type |-> body.type, ip |-> ip, serverTimestamp |-> clock]

\* the file-system call that throws while a report is written, if any
FsFaults == {"none", "mkdirSync", "appendFileSync"}
\* if (!fs.existsSync(logDir)) fs.mkdirSync(...); fs.appendFileSync(...)
fsThrows(fault) ==
  \/ fault = "mkdirSync" /\ ~logDirExists
  \/ fault = "appendFileSync"

dirAfterWrite(fault) == logDirExists \/ fault # "mkdirSync"

\* fs.appendFileSync(logFile, JSON.stringify(errorLog) + '\n')
appendFileSync_twice(file, line) == Append(Append(file, line), line)

appendFileSync(file, line) == Append(file, line)

NextResponse(status, success) == [status |-> status, success |-> success]
NoResponse == NextResponse(0, FALSE)
RateLimitExceeded == NextResponse(429, FALSE)
Success == NextResponse(200, TRUE)
\* the catch block: every exception is answered 'Invalid error log format'
InvalidFormat == NextResponse(400, FALSE)

IngestIdle ==
  /\ postPc = [r \in Requests |-> "idle"]
  /\ postIp = [r \in Requests |-> "none"]
  /\ response = [r \in Requests |-> NoResponse]
  /\ postBody = [r \in Requests |-> <<>>]
  /\ postFault = [r \in Requests |-> "none"]
  /\ clientLog = <<>>
  /\ logDirExists = FALSE

\* records that requests answered before the ones followed here have left:
\* none, or maxRequests - 1 requests at time 0, none of which wrote a line
EarlierRequests == {0, maxRequests - 1}
recordAfter(n) == IF n = 0 THEN NoRecord ELSE [count |-> n, resetTime |-> windowMs]

InitIngest ==
  /\ postPc = [r \in Requests |-> "idle"]
  /\ postIp = [r \in Requests |-> "none"]
  /\ response = [r \in Requests |-> NoResponse]
  /\ postBody = [r \in Requests |-> <<>>]
  /\ postFault = [r \in Requests |-> "none"]
  /\ clientLog = <<>>
  /\ logDirExists = FALSE
  /\ \E n \in [ClientKeys -> EarlierRequests] :
       /\ rateLimitStore = [k \in ClientKeys |-> recordAfter(n[k])]
       /\ admitTimes = [k \in ClientKeys |-> [i \in 1..n[k] |-> 0]]
  /\ clock = 0
  /\ nextSweep = windowMs + 1
  /\ verdict = NoVerdict

\* POST from its start to `await request.json()`, or to the 429 response
PostReceive(r) ==
  /\ postPc[r] = "idle"
  \* requests are numbered in the order of their arrival
  /\ \A q \in Requests : q < r => postPc[q] # "idle"
  /\ \E requestIp \in RequestIps, forwarded \in ForwardedFor :
       LET ip == clientIp(requestIp, forwarded) IN
         /\ postIp' = [postIp EXCEPT ![r] = ip]
         /\ rateLimitStore' = storeAfterCheck(ip)
         /\ admitTimes' = admitTimesAfterCheck(ip)
         /\ IF checkRateLimit(ip)
              THEN /\ postPc' = [postPc EXCEPT ![r] = "json"]
                   /\ UNCHANGED response
              ELSE /\ postPc' = [postPc EXCEPT ![r] = "done"]
                   /\ response' = [response EXCEPT ![r] = RateLimitExceeded]
  /\ UNCHANGED <<postBody, postFault, clientLog, logDirExists>>
  /\ UNCHANGED <<clock, nextSweep, verdict>>
  /\ UNCHANGED nonIngestVars

\* request.json() rejects: the catch block answers
PostJsonRejects(r) ==
  /\ postPc[r] = "json"
  /\ postPc' = [postPc EXCEPT ![r] = "done"]
  /\ response' = [response EXCEPT ![r] = InvalidFormat]
  /\ UNCHANGED <<postIp, postBody, postFault, clientLog, logDirExists>>
  /\ UNCHANGED limiterVars
  /\ UNCHANGED nonIngestVars

\* request.json() resolves: POST from there to its return
PostBody(r) ==
  /\ postPc[r] = "json"
  /\ postPc' = [postPc EXCEPT ![r] = "done"]
  /\ \E body \in Bodies, fault \in FsFaults :
       \* a file-system call throws only where it is made
       /\ fault # "none" => ErrorLogSchema(body)
       /\ fault = "mkdirSync" => ~logDirExists
       /\ postBody' = [postBody EXCEPT ![r] = <<body>>]
       /\ IF ~ErrorLogSchema(body)
            THEN /\ response' = [response EXCEPT ![r] = InvalidFormat]
                 /\ UNCHANGED <<postFault, clientLog, logDirExists>>
          ELSE IF fsThrows(fault)
            THEN /\ response' = [response EXCEPT ![r] = InvalidFormat]
                 /\ postFault' = [postFault EXCEPT ![r] = fault]
                 /\ logDirExists' = dirAfterWrite(fault)
                 /\ UNCHANGED clientLog
          ELSE /\ response' = [response EXCEPT ![r] = Success]
               /\ clientLog' = appendFileSync(clientLog, errorLog(body, postIp[r]))
               /\ logDirExists' = TRUE
               /\ UNCHANGED postFault
  /\ UNCHANGED postIp
  /\ UNCHANGED limiterVars
  /\ UNCHANGED nonIngestVars

NextIngest ==
  \/ \E r \in Requests : PostReceive(r)
  \/ \E r \in Requests : PostJsonRejects(r)
  \/ \E r \in Requests : PostBody(r)
  \/ Sweep
  \/ TickLimiter

(***************************************************************************)
(* Backend error handling (middleware/error-handler.ts)                    *)
(***************************************************************************)
NodeEnvs == {"development", "production"}

\* values a handler can throw or a promise can be rejected with
ErrorOf(text) == [kind |-> "Error", message |-> text]
StringOf(text) == [kind |-> "string", message |-> text]
NullValue == [kind |-> "null", message |-> "null"]
Throwables ==
  { ErrorOf("Database connection failed"), ErrorOf(""), StringOf("boom"), NullValue }
NothingThrown == [kind |-> "none", message |-> ""]

\* error.message
messageOf(error) == IF error.kind = "Error" THEN error.message ELSE "undefined"
\* reason instanceof Error ? reason : new Error(String(reason))
asError(reason) == IF reason.kind = "Error" THEN reason ELSE ErrorOf(reason.message)

\* the request handed to logBackendError (absent when a process hook calls it)
NoApiRequest == [present |-> FALSE, url |-> "", ip |-> "undefined", forwarded |-> "null"]
ApiRequests ==
  { [present |-> TRUE, url |-> "/api/test-error?type=runtime", ip |-> "10.0.0.1",
     forwarded |-> "null"],
    [present |-> TRUE, url |-> "/api/test-error?type=runtime", ip |-> "undefined",
     forwarded |-> "null"] }

\* const errorLog = { message, stack, url, method, timestamp, type, userAgent, ip }
backendErrorLog(error, request) ==
  [message |-> IF truthy(messageOf(error)) THEN messageOf(error) ELSE "Unknown error",
   url |-> request.url,
   timestamp |-> clock,
   type |-> "backend",
   ip |-> clientIp(request.ip, request.forwarded)]

\* logBackendError throws: error.message of null, or a file-system call
logBackendErrorThrows(error, fault) == error.kind = "null" \/ fsThrows(fault)
\* logs/ exists once logBackendError has run
dirAfterLog(error, fault) ==
  IF error.kind = "null" THEN logDirExists ELSE dirAfterWrite(fault)

\* the 500 answer of withErrorHandler
InternalServerError == "Internal Server Error. Please try again later."
errorText_raw(error) == messageOf(error)

errorText(error) ==
  IF nodeEnv = "development" THEN messageOf(error) ELSE InternalServerError

NoApiResponse == [status |-> 0, error |-> "none"]
\* the exception thrown inside the catch block leaves the wrapper
Propagated == [status |-> 0, error |-> "thrown"]
HandlerResponse == [status |-> 200, error |-> "none"]

BackendIdle ==
  /\ nodeEnv = "production"
  /\ backendLog = <<>>
  /\ apiResponse = NoApiResponse
  /\ apiThrown = NothingThrown
  /\ processExited = FALSE

InitBackend ==
  /\ nodeEnv \in NodeEnvs
  /\ backendLog = <<>>
  /\ apiResponse = NoApiResponse
  /\ apiThrown = NothingThrown
  /\ processExited = FALSE

\* a wrapped handler returns without throwing
HandlerReturns ==
  /\ ~processExited
  /\ apiResponse' = HandlerResponse
  /\ apiThrown' = NothingThrown
  /\ UNCHANGED <<nodeEnv, backendLog, processExited>>
  /\ UNCHANGED <<limiterVars, ingestVars>>
  /\ UNCHANGED nonBackendVars

\* a wrapped handler throws: the catch block of withErrorHandler
HandlerThrows ==
  /\ ~processExited
  /\ Len(backendLog) < MaxBackendLines
  /\ \E error \in Throwables, request \in ApiRequests, fault \in FsFaults :
       /\ fault = "mkdirSync" => ~logDirExists
       /\ fault # "none" => error.kind # "null"
       /\ apiThrown' = error
       /\ logDirExists' = dirAfterLog(error, fault)
       /\ IF logBackendErrorThrows(error, fault)
            THEN /\ apiResponse' = Propagated
                 /\ UNCHANGED backendLog
            ELSE /\ apiResponse' = [status |-> 500, error |-> errorText(error)]
                 /\ backendLog' = Append(backendLog, backendErrorLog(error, request))
  /\ UNCHANGED <<nodeEnv, processExited>>
  /\ UNCHANGED <<postPc, postIp, response, postBody, postFault, clientLog>>
  /\ UNCHANGED limiterVars
  /\ UNCHANGED nonBackendVars

\* the logs and the process once a process hook has run logBackendError(error)
hookLogs(error, fault) ==
  IF logBackendErrorThrows(error, fault)
    THEN backendLog
    ELSE Append(backendLog, backendErrorLog(error, NoApiRequest))
\* process.exit(1) in production; a hook that throws ends the process as well
hookExits(error, fault) ==
  logBackendErrorThrows(error, fault) \/ nodeEnv = "production"

\* process.on('uncaughtException', ...)
UncaughtException ==
  /\ ~processExited
  /\ Len(backendLog) < MaxBackendLines
  /\ \E error \in Throwables, fault \in FsFaults :
       /\ fault = "mkdirSync" => ~logDirExists
       /\ fault # "none" => error.kind # "null"
       /\ logDirExists' = dirAfterLog(error, fault)
       /\ backendLog' = hookLogs(error, fault)
       /\ processExited' = hookExits(error, fault)
  /\ UNCHANGED <<nodeEnv, apiResponse, apiThrown>>
  /\ UNCHANGED <<postPc, postIp, response, postBody, postFault, clientLog>>
  /\ UNCHANGED limiterVars
  /\ UNCHANGED nonBackendVars

\* process.on('unhandledRejection', ...)
UnhandledRejection ==
  /\ ~processExited
  /\ Len(backendLog) < MaxBackendLines
  /\ \E reason \in Throwables, fault \in FsFaults :
       /\ fault = "mkdirSync" => ~logDirExists
       /\ logDirExists' = dirAfterLog(asError(reason), fault)
       /\ backendLog' = hookLogs(asError(reason), fault)
       /\ processExited' = hookExits(asError(reason), fault)
  /\ UNCHANGED <<nodeEnv, apiResponse, apiThrown>>
  /\ UNCHANGED <<postPc, postIp, response, postBody, postFault, clientLog>>
  /\ UNCHANGED limiterVars
  /\ UNCHANGED nonBackendVars

\* the endpoint and the backend hooks, writing their two logs
InitLogs ==
  /\ InitBackend
  /\ IngestIdle
  /\ LimiterIdle

\* the client request followed while the backend hooks run
LoggedRequests == {1}

NextLogs ==
  \/ \E r \in LoggedRequests : PostReceive(r)
  \/ \E r \in LoggedRequests : PostJsonRejects(r)
  \/ \E r \in LoggedRequests : PostBody(r)
  \/ HandlerReturns
  \/ HandlerThrows
  \/ UncaughtException
  \/ UnhandledRejection
  \/ TickLimiter

(***************************************************************************)
(* Error notification provider (ErrorProvider, three components)           *)
(***************************************************************************)
\* "hooks": the provider with global hooks, timer reference and truncation;
\* "console": the provider with global hooks and console.error replaced;
\* "context": the provider of src/providers, show and clear only
Variants == {"hooks", "console", "context"}
hasHooks(v) == v \in {"hooks", "console"}
keepsTimerRef(v) == v \in {"hooks", "context"}

\* autoClearTimeout = 5000, maxMessageLength = 200
autoClearTimeout == 5000
defaultMaxLength == 200
MaxLengths == {0, 2, 4, defaultMaxLength}
NotificationTypes == {"error", "success", "warning", "info"}
\* amount by which browser time moves between two steps
BrowserStep == autoClearTimeout \div 2

\* messages components show
ShownMessages == {<<>>, <<"a", "b">>, <<"a", "b", "c", "d", "e", "f">>}
\* messages of the errors and rejection reasons the hooks capture
RawMessages == {"Database connection failed", "x is not a function"}

SomethingWentWrong ==
  <<"S", "o", "m", "e", "t", "h", "i", "n", "g", " ", "w", "e", "n", "t",
  " ", "w", "r", "o", "n", "g", ".", " ", "P", "l", "e", "a", "s", "e",
  " ", "t", "r", "y", " ", "a", "g", "a", "i", "n", ".">>
LabelGlobalError == <<"G", "l", "o", "b", "a", "l", " ", "E", "r", "r", "o", "r", ":">>
LabelUnhandledRejection ==
  <<"U", "n", "h", "a", "n", "d", "l", "e", "d", " ", "P", "r", "o", "m", "i", "s", "e", " ">>
    \o <<"R", "e", "j", "e", "c", "t", "i", "o", "n", ":">>
LabelReactError == <<"R", "e", "a", "c", "t", " ", "E", "r", "r", "o", "r", ":">>
\* an object converted to a string by Array.prototype.join
ObjectString == <<"[", "o", "b", "j", "e", "c", "t", " ", "O", "b", "j", "e", "c", "t", "]">>
kwReact == <<"R", "e", "a", "c", "t">>
kwErrorColon == <<"E", "r", "r", "o", "r", ":">>

\* String.prototype.substring: both ends clamped to the string, then ordered
clampIndex(str, i) == IF i < 0 THEN 0 ELSE IF i > Len(str) THEN Len(str) ELSE i
substring(str, start, end) ==
  LET a == clampIndex(str, start)
      b == clampIndex(str, end)
  IN IF a <= b THEN SubSeq(str, a + 1, b) ELSE SubSeq(str, b + 1, a)

truncateMessage(msg, maxLength) ==
  IF Len(msg) <= maxLength
    THEN msg
    ELSE substring(msg, 0, maxLength - 3) \o <<".", ".", ".">>

\* the error state: null, or the text of the toast
NoNotification == [visible |-> FALSE, text |-> <<>>]
Toast(text) == [visible |-> TRUE, text |-> text]
NotShown == [at |-> -1, text |-> <<>>, kind |-> "none"]
NothingCaptured ==
  [kind |-> "none", message |-> "", reports |-> 0, raised |-> FALSE, transport |-> "none"]
\* how the fetch of sendErrorToBackend ends
Transports == {"ok", "status 500", "throws"}

\* clearTimeoutRef as the closures created by the first render see it: the
\* handlers registered by useEffect(..., []) and its cleanup keep that value
refAtMount == 0

ProviderIdle ==
  /\ variant = "hooks"
  /\ clientEnv = "production"
  /\ maxLengthProp = defaultMaxLength
  /\ mounted = FALSE
  /\ instance = 0
  /\ notification = NoNotification
  /\ notificationType = "error"
  /\ clearTimeoutRef = 0
  /\ timers = {}
  /\ nextTimer = 1
  /\ browserNow = 0
  /\ errorListeners = 0
  /\ rejectionListeners = 0
  /\ consoleOverridden = FALSE
  /\ shown = NotShown
  /\ captured = NothingCaptured

InitProvider ==
  /\ variant \in Variants
  /\ clientEnv \in NodeEnvs
  /\ maxLengthProp \in MaxLengths
  /\ variant # "hooks" => maxLengthProp = defaultMaxLength
  /\ mounted = FALSE
  /\ instance = 0
  /\ notification = NoNotification
  /\ notificationType = "error"
  /\ clearTimeoutRef = 0
  /\ timers = {}
  /\ nextTimer = 1
  /\ browserNow = 0
  /\ errorListeners = 0
  /\ rejectionListeners = 0
  /\ consoleOverridden = FALSE
  /\ shown = NotShown
  /\ captured = NothingCaptured

\* the text setError receives from a show call
shownText(msg) ==
  IF variant = "hooks" THEN truncateMessage(msg, maxLengthProp) ELSE msg

\* clearTimeout(ref): with ref null, or a timeout that is no longer set,
\* nothing is cleared
timersAfterClear(ref) == {t \in timers : t.id # ref}

\* showError / showSuccess / showWarning / showInfo, called from a closure
\* that sees clearTimeoutRef = ref
ShowCall(kind, msg, ref) ==
  /\ timers' =
       (IF keepsTimerRef(variant) THEN timersAfterClear(ref) ELSE timers)
         \cup {[id |-> nextTimer, due |-> browserNow + autoClearTimeout,
                kind |-> kind, instance |-> instance]}
  /\ nextTimer' = nextTimer + 1
  /\ notification' = Toast(shownText(msg))
  /\ notificationType' = IF variant = "hooks" THEN kind ELSE notificationType
  /\ clearTimeoutRef' = IF keepsTimerRef(variant) THEN nextTimer ELSE clearTimeoutRef
  /\ shown' = [at |-> browserNow, text |-> msg, kind |-> kind]

\* the component is rendered for the first time; useEffect registers the hooks
Mount ==
  /\ ~mounted
  /\ instance < MaxMounts
  /\ mounted' = TRUE
  /\ instance' = instance + 1
  /\ notification' = NoNotification
  /\ notificationType' = "error"
  /\ clearTimeoutRef' = 0
  /\ errorListeners' = IF hasHooks(variant) THEN errorListeners + 1 ELSE errorListeners
  /\ rejectionListeners' =
       IF hasHooks(variant) THEN rejectionListeners + 1 ELSE rejectionListeners
  /\ consoleOverridden' = (variant = "console")
  /\ shown' = NotShown
  /\ UNCHANGED <<variant, clientEnv, maxLengthProp, timers, nextTimer, browserNow, captured>>
  /\ UNCHANGED nonProviderVars

\* the component is removed; the cleanup returned by useEffect runs
Unmount ==
  /\ mounted
  /\ mounted' = FALSE
  /\ errorListeners' = IF hasHooks(variant) THEN errorListeners - 1 ELSE errorListeners
  /\ rejectionListeners' =
       IF hasHooks(variant) THEN rejectionListeners - 1 ELSE rejectionListeners
  /\ consoleOverridden' = FALSE
  /\ timers' = IF variant = "hooks" THEN timersAfterClear(refAtMount) ELSE timers
  /\ notification' = NoNotification
  /\ shown' = NotShown
  /\ UNCHANGED <<variant, clientEnv, maxLengthProp, instance, notificationType,
                 clearTimeoutRef, nextTimer, browserNow, captured>>
  /\ UNCHANGED nonProviderVars

\* a component calls one of the show functions of the context value
ComponentShow ==
  /\ mounted
  /\ nextTimer <= MaxShows
  /\ \E kind \in NotificationTypes, msg \in ShownMessages :
       /\ variant # "hooks" => kind = "error"
       /\ ShowCall(kind, msg, clearTimeoutRef)
  /\ UNCHANGED <<variant, clientEnv, maxLengthProp, mounted, instance, browserNow,
                 errorListeners, rejectionListeners, consoleOverridden, captured>>
  /\ UNCHANGED nonProviderVars

\* clearError, from a component or the close button
ClearError ==
  /\ mounted
  /\ notification' = NoNotification
  /\ notificationType' = "error"
  /\ timers' = IF keepsTimerRef(variant) THEN timersAfterClear(clearTimeoutRef) ELSE timers
  /\ clearTimeoutRef' = 0
  /\ shown' = NotShown
  /\ UNCHANGED <<variant, clientEnv, maxLengthProp, mounted, instance, nextTimer,
                 browserNow, errorListeners, rejectionListeners, consoleOverridden,
                 captured>>
  /\ UNCHANGED nonProviderVars

\* the callback of a timeout runs; a callback of a removed component instance
\* changes nothing that is shown
TimerCallback ==
  \E t \in timers :
    /\ t.due <= browserNow
    /\ timers' = timers \ {t}
    /\ IF mounted /\ t.instance = instance
         THEN /\ notification' = NoNotification
              /\ notificationType' = t.kind
              /\ clearTimeoutRef' = IF variant = "context" THEN 0 ELSE clearTimeoutRef
         ELSE UNCHANGED <<notification, notificationType, clearTimeoutRef>>

AutoClear ==
  /\ TimerCallback
  /\ UNCHANGED <<variant, clientEnv, maxLengthProp, mounted, instance, nextTimer,
                 browserNow, errorListeners, rejectionListeners, consoleOverridden,
                 shown, captured>>
  /\ UNCHANGED nonProviderVars

\* time passes in the browser; a timeout that is due runs before time moves on
TickBrowser ==
  /\ browserNow + BrowserStep <= MaxBrowserTime
  /\ \A t \in timers : t.due >= browserNow + BrowserStep
  /\ browserNow' = browserNow + BrowserStep
  /\ UNCHANGED <<variant, clientEnv, maxLengthProp, mounted, instance, notification,
                 notificationType, clearTimeoutRef, timers, nextTimer, errorListeners,
                 rejectionListeners, consoleOverridden, shown, captured>>
  /\ UNCHANGED nonProviderVars

\* args.join(' ') of console.error(label, errorData)
errorString(label) == label \o <<" ">> \o ObjectString
\* errorString.includes('React') || errorString.includes('Error:')
looksLikeReactError(str) == includes(str, kwReact) \/ includes(str, kwErrorColon)

Returned(n) == [raised |-> FALSE, reports |-> n]
\* RangeError: Maximum call stack size exceeded
StackExhausted == [raised |-> TRUE, reports |-> 0]
\* one more report once the calls made before the fetch have returned
thenSends(before) == IF before.raised THEN before ELSE Returned(before.reports + 1)

RECURSIVE handleReactError(_)
\* console.error(label, errorData) called at the given depth of the call
\* stack, and handleReactError called by the replacement of console.error:
\* whether the call throws, and how many reports it forwards
consoleError(label, depth) ==
  IF consoleOverridden /\ looksLikeReactError(errorString(label))
    THEN handleReactError(depth + 1)
    ELSE Returned(0)

handleReactError(depth) ==
  IF depth > MaxStackDepth THEN StackExhausted
  ELSE IF clientEnv = "development"
    THEN thenSends(consoleError(LabelReactError, depth))
  ELSE Returned(1)

\* handleGlobalError / handleUnhandledRejection up to sendErrorToBackend
handleCaptured(label) ==
  IF clientEnv = "development"
    THEN thenSends(consoleError(label, 1))
    ELSE Returned(1)

\* the handler of a captured event, running in the closure of the first render
CapturedEvent(kind, label) ==
  /\ nextTimer <= MaxShows
  /\ \E raw \in RawMessages, transport \in Transports :
       LET outcome == handleCaptured(label) IN
         /\ captured' =
              [kind |-> kind, message |-> raw, reports |-> outcome.reports,
               raised |-> outcome.raised,
               transport |-> IF outcome.reports > 0 THEN transport ELSE "none"]
         /\ IF outcome.raised
              THEN UNCHANGED <<timers, nextTimer, notification, notificationType,
                               clearTimeoutRef, shown>>
              ELSE ShowCall("error", SomethingWentWrong, refAtMount)
  /\ UNCHANGED <<variant, clientEnv, maxLengthProp, mounted, instance, browserNow,
                 errorListeners, rejectionListeners, consoleOverridden>>
  /\ UNCHANGED nonProviderVars

\* window dispatches 'error' to handleGlobalError
GlobalErrorEvent ==
  /\ errorListeners > 0
  /\ CapturedEvent("error", LabelGlobalError)

\* window dispatches 'unhandledrejection' to handleUnhandledRejection
RejectionEvent ==
  /\ rejectionListeners > 0
  /\ CapturedEvent("unhandledrejection", LabelUnhandledRejection)

NextProvider ==
  \/ Mount
  \/ Unmount
  \/ ComponentShow
  \/ ClearError
  \/ GlobalErrorEvent
  \/ RejectionEvent
  \/ AutoClear
  \/ TickBrowser

(***************************************************************************)
(* debouncedErrorReport (lib/error-recovery.ts)                            *)
(***************************************************************************)
ERROR_REPORT_DEBOUNCE == 5000
ErrorKeys == {"network", "render"}
\* errorReportQueue.get(errorKey) of a key the map does not hold
NoReport == -1
\* what reportFn does when it is invoked
ReportFns == {"returns", "throws"}
\* the steps Date.now() moves by between calls
DebounceSteps == {ERROR_REPORT_DEBOUNCE \div 2, ERROR_REPORT_DEBOUNCE \div 2 + 1}

NoReportCall == [key |-> "", at |-> 0, outcome |-> "none"]

DebounceIdle ==
  /\ errorReportQueue = [k \in ErrorKeys |-> NoReport]
  /\ debounceNow = 1
  /\ reported = [k \in ErrorKeys |-> <<>>]
  /\ lastReportCall = NoReportCall

InitDebounce == DebounceIdle

\* !lastReport || now - lastReport > ERROR_REPORT_DEBOUNCE
passesDebounce_ge(lastReport) ==
  \/ lastReport = NoReport
  \/ lastReport = 0
  \/ debounceNow - lastReport >= ERROR_REPORT_DEBOUNCE

passesDebounce(lastReport) ==
  \/ lastReport = NoReport
  \/ lastReport = 0
  \/ debounceNow - lastReport > ERROR_REPORT_DEBOUNCE

\* debouncedErrorReport(errorKey, reportFn)
DebouncedErrorReport(errorKey) ==
  /\ \E reportFn \in ReportFns :
       IF passesDebounce(errorReportQueue[errorKey])
         THEN /\ errorReportQueue' = [errorReportQueue EXCEPT ![errorKey] = debounceNow]
              /\ reported' = [reported EXCEPT ![errorKey] = Append(@, debounceNow)]
              /\ lastReportCall' =
                   [key |-> errorKey, at |-> debounceNow,
                    outcome |-> IF reportFn = "throws" THEN "raised" ELSE "reported"]
         ELSE /\ lastReportCall' =
                   [key |-> errorKey, at |-> debounceNow, outcome |-> "suppressed"]
              /\ UNCHANGED <<errorReportQueue, reported>>
  /\ UNCHANGED debounceNow
  /\ UNCHANGED nonDebounceVars

\* time passes
TickDebounce ==
  /\ \E d \in DebounceSteps :
       /\ debounceNow + d <= MaxDebounceNow
       /\ debounceNow' = debounceNow + d
  /\ UNCHANGED <<errorReportQueue, reported, lastReportCall>>
  /\ UNCHANGED nonDebounceVars

NextDebounce ==
  \/ \E errorKey \in ErrorKeys : DebouncedErrorReport(errorKey)
  \/ TickDebounce

(***************************************************************************)
(* Specifications: one per component, the others at rest.                  *)
(***************************************************************************)
InitRetrySpec == InitRetry /\ InitBreaker /\ FallbackIdle /\ SafeIdle /\ ClassifyIdle /\ LimiterIdle /\ IngestIdle
    /\ BackendIdle /\ ProviderIdle
    /\ DebounceIdle

SpecRetry == InitRetrySpec /\ [][NextRetry]_vars

InitBreakerSpec == InitBreaker /\ RetryNotCalled /\ FallbackIdle /\ SafeIdle /\ ClassifyIdle /\ LimiterIdle /\ IngestIdle
    /\ BackendIdle /\ ProviderIdle
    /\ DebounceIdle

SpecBreaker == InitBreakerSpec /\ [][NextBreaker]_vars

InitFallbackSpec == FallbackIdle /\ InitBreaker /\ RetryNotCalled /\ SafeIdle /\ ClassifyIdle /\ LimiterIdle /\ IngestIdle
    /\ BackendIdle /\ ProviderIdle
    /\ DebounceIdle

SpecFallback == InitFallbackSpec /\ [][NextFallback]_vars

InitSafeSpec == InitSafe /\ InitBreaker /\ RetryNotCalled /\ FallbackIdle /\ ClassifyIdle /\ LimiterIdle /\ IngestIdle
    /\ BackendIdle /\ ProviderIdle
    /\ DebounceIdle

SpecSafe == InitSafeSpec /\ [][NextSafe]_vars

InitClassifySpec == InitClassify /\ InitBreaker /\ RetryNotCalled /\ FallbackIdle /\ SafeIdle /\ LimiterIdle /\ IngestIdle
    /\ BackendIdle /\ ProviderIdle
    /\ DebounceIdle

SpecClassify == InitClassifySpec /\ [][NextClassify]_vars

InitRateLimitSpec ==
  InitLimiter /\ InitBreaker /\ RetryNotCalled /\ FallbackIdle /\ SafeIdle /\ ClassifyIdle
    /\ IngestIdle /\ BackendIdle /\ ProviderIdle
    /\ DebounceIdle

SpecRateLimit == InitRateLimitSpec /\ [][NextRateLimit]_vars

InitIngestSpec ==
  InitIngest /\ InitBreaker /\ RetryNotCalled /\ FallbackIdle /\ SafeIdle /\ ClassifyIdle
    /\ BackendIdle /\ ProviderIdle
    /\ DebounceIdle

SpecIngest == InitIngestSpec /\ [][NextIngest]_vars

InitLogsSpec ==
  InitLogs /\ InitBreaker /\ RetryNotCalled /\ FallbackIdle /\ SafeIdle /\ ClassifyIdle
    /\ ProviderIdle
    /\ DebounceIdle

SpecLogs == InitLogsSpec /\ [][NextLogs]_vars

InitProviderSpec ==
  InitProvider /\ InitBreaker /\ RetryNotCalled /\ FallbackIdle /\ SafeIdle /\ ClassifyIdle
    /\ LimiterIdle /\ IngestIdle /\ BackendIdle
    /\ DebounceIdle

SpecProvider == InitProviderSpec /\ [][NextProvider]_vars

\* what reaches the end user: the provider's global hooks in the browser and
\* withErrorHandler on the server
InitExposureSpec ==
  InitProvider /\ InitBackend /\ InitBreaker /\ RetryNotCalled /\ FallbackIdle /\ SafeIdle
    /\ ClassifyIdle /\ LimiterIdle /\ IngestIdle
    /\ DebounceIdle

NextExposure ==
  \/ Mount
  \/ GlobalErrorEvent
  \/ RejectionEvent
  \/ HandlerReturns
  \/ HandlerThrows

SpecExposure == InitExposureSpec /\ [][NextExposure]_vars

InitDebounceSpec ==
  InitDebounce /\ InitBreaker /\ RetryNotCalled /\ FallbackIdle /\ SafeIdle /\ ClassifyIdle
    /\ LimiterIdle /\ IngestIdle /\ BackendIdle /\ ProviderIdle

SpecDebounce == InitDebounceSpec /\ [][NextDebounce]_vars

TypeOKBreaker ==
  /\ state \in {"CLOSED", "OPEN", "HALF_OPEN"}
  /\ failures \in Nat
  /\ lastFailureTime \in 0..MaxNow
  /\ now \in 0..MaxNow
  /\ pc \in [Callers -> {"idle", "awaiting", "done"}]
  /\ consecFails \in Nat
  /\ prevState \in {"CLOSED", "OPEN", "HALF_OPEN"}

(***************************************************************************)
(* Properties of the CircuitBreaker, checked under SpecBreaker.            *)
(***************************************************************************)
\* caller c calls execute in this step
Calls(c) == pc[c] = "idle" /\ pc'[c] # "idle"
\* the operation of caller c resolves / rejects in this step
OpSucceeds(c) == pc[c] = "awaiting" /\ fnOutcome'[c][1] = "ok"
OpFails(c) == pc[c] = "awaiting" /\ fnOutcome'[c][1] = "err"

\* C1: counting the operation failures since the breaker was created or an
\* operation last succeeded, getState() is CLOSED while fewer than
\* failureThreshold of them have happened, and the failure that brings the
\* count to failureThreshold leaves getState() = OPEN.
C1_OpensAtThreshold ==
  [][ /\ (consecFails < failureThreshold => getState = "CLOSED")
      /\ (consecFails' < failureThreshold => getState' = "CLOSED")
      /\ \A c \in Callers :
           (OpFails(c) /\ consecFails' = failureThreshold) => getState' = "OPEN"
      /\ \A c \in Callers :
           OpSucceeds(c) => (consecFails' = 0 /\ getState' = "CLOSED") ]_vars

C1_Witness ==
  /\ getState = "OPEN"
  /\ consecFails = failureThreshold
  /\ prevState = "CLOSED"

\* C2: a call of execute made while state = OPEN and at most resetTimeout has
\* passed since lastFailureTime fails in the same step with the circuit-open
\* error, does not invoke the operation, and leaves state, failures and
\* lastFailureTime as they were.
C2_OpenRejects ==
  [][ \A c \in Callers :
        (Calls(c) /\ state = "OPEN" /\ now - lastFailureTime <= resetTimeout)
          => /\ pc'[c] = "done"
             /\ result'[c] = <<"thrown", CircuitOpenError>>
             /\ fnOutcome'[c] = <<"notInvoked">>
             /\ UNCHANGED <<state, failures, lastFailureTime>> ]_vars

C2_Witness ==
  /\ state = "OPEN"
  /\ now - lastFailureTime = resetTimeout
  /\ \E c \in Callers :
       /\ pc[c] = "done"
       /\ result[c] = <<"thrown", CircuitOpenError>>
       /\ fnOutcome[c] = <<"notInvoked">>

\* C3: the passing of time alone leaves an OPEN breaker OPEN; a call of
\* execute made while OPEN with more than resetTimeout passed since
\* lastFailureTime sets HALF_OPEN and invokes the operation; an operation that
\* succeeds leaves the breaker CLOSED with failures = 0.
C3_HalfOpenThenClosed ==
  [][ /\ (now' # now /\ state = "OPEN" => state' = "OPEN")
      /\ \A c \in Callers :
           (Calls(c) /\ state = "OPEN" /\ now - lastFailureTime > resetTimeout)
             => /\ state' = "HALF_OPEN"
                /\ pc'[c] = "awaiting"
                /\ fnOutcome'[c] = <<"pending">>
      /\ \A c \in Callers :
           OpSucceeds(c) => (state' = "CLOSED" /\ failures' = 0) ]_vars

C3_Witness ==
  /\ prevState = "HALF_OPEN"
  /\ state = "CLOSED"
  /\ failures = 0
  /\ \E c \in Callers : pc[c] = "done" /\ result[c][1] = "returned"

\* C4: an operation that fails while state = HALF_OPEN leaves state = OPEN and
\* lastFailureTime = the time of that failure.
C4_HalfOpenFailureReopens ==
  [][ \A c \in Callers :
        (OpFails(c) /\ state = "HALF_OPEN")
          => (state' = "OPEN" /\ lastFailureTime' = now) ]_vars

C4_Witness ==
  /\ prevState = "HALF_OPEN"
  /\ state = "OPEN"
  /\ lastFailureTime = now
  /\ \E c \in Callers : pc[c] = "done" /\ fnOutcome[c][1] = "err"

\* C5: in every reachable state, state = OPEN implies
\* failures >= failureThreshold.
C5_OpenImpliesThreshold == state = "OPEN" => failures >= failureThreshold

C5_Witness ==
  /\ state = "OPEN"
  /\ failures > failureThreshold
  /\ \E c \in Callers : pc[c] = "awaiting"

\* C6: a settled execute whose operation rejected with error e is rejected
\* with that same e, and one whose operation resolved to v returns v, in
\* whatever state the breaker is.
C6_ErrorPassedThrough ==
  \A c \in Callers :
    pc[c] = "done" =>
      /\ (fnOutcome[c][1] = "err" => result[c] = <<"thrown", fnOutcome[c][2]>>)
      /\ (fnOutcome[c][1] = "ok" => result[c] = <<"returned", fnOutcome[c][2]>>)

C6_Witness ==
  /\ prevState = "HALF_OPEN"
  /\ \E c \in Callers :
       /\ pc[c] = "done"
       /\ fnOutcome[c][1] = "err"
       /\ result[c] = <<"thrown", fnOutcome[c][2]>>

(***************************************************************************)
(* Properties of retry, checked under SpecRetry.                           *)
(***************************************************************************)
\* positions of the log holding an event of the given kind:
\* "fn" (operation invoked), "ok" / "err" (it resolved / rejected),
\* "onRetry" (callback called), "wait" (setTimeout started)
Events(kind) == {i \in 1..Len(log) : log[i][1] = kind}
Invocations == Cardinality(Events("fn"))

\* C7: retry invokes the operation at most maxAttempts times (never, when
\* maxAttempts is below 1), and a resolved invocation is the last thing retry
\* does: it has returned that value and nothing is invoked, called or waited
\* for afterwards.
C7_AtMostMaxAttempts ==
  /\ (maxAttempts >= 0 => Invocations <= maxAttempts)
  /\ (maxAttempts < 0 => Invocations = 0)
  /\ \A i \in Events("ok") :
       /\ i = Len(log)
       /\ rpc = "returned"
       /\ retryResult = <<"returned", log[i][3]>>

C7_Witness ==
  /\ rpc = "returned"
  /\ attempt > 1
  /\ attempt < maxAttempts
  /\ Invocations = attempt

\* C8: every wait of retry follows a failed attempt k in 1..maxAttempts-1 and
\* lasts delay * 2^(k-1) when backoff is true and delay when it is false, and
\* every attempt k+1 is invoked right after the wait that followed attempt k.
C8_BackoffSchedule ==
  /\ \A i \in Events("wait") :
       /\ log[i][2] \in 1..(maxAttempts - 1)
       /\ \E j \in Events("err") : j < i /\ log[j][2] = log[i][2]
       /\ log[i][3] = IF backoff THEN delay * 2^(log[i][2] - 1) ELSE delay
  /\ \A i \in Events("fn") :
       log[i][2] > 1 =>
         /\ log[i-1][1] = "wait"
         /\ log[i-1][2] = log[i][2] - 1

C8_Witness ==
  /\ backoff
  /\ delay = defaultDelay
  /\ \E i \in Events("wait") : log[i] = <<"wait", 3, 4 * defaultDelay>>

\* C9: onRetry, when supplied, is called once for each failed attempt
\* k < maxAttempts, with k and the error of that attempt, right after the
\* failure and right before the wait for attempt k+1 (or it throws out of
\* retry); it is not called for the last attempt, after a success, or when it
\* is not supplied.
C9_OnRetryBetweenAttempts ==
  /\ \A i \in Events("onRetry") :
       /\ onRetry
       /\ log[i][2] < maxAttempts
       /\ i > 1 /\ log[i-1] = <<"err", log[i][2], log[i][3]>>
       /\ IF i < Len(log)
            THEN log[i+1][1] = "wait" /\ log[i+1][2] = log[i][2]
            ELSE rpc = "thrown" /\ retryResult = <<"thrown", OnRetryError>>
       /\ \A j \in Events("onRetry") : log[j][2] = log[i][2] => j = i
       /\ \A j \in Events("ok") : i < j
  /\ \A i \in Events("err") :
       (onRetry /\ log[i][2] < maxAttempts)
         => /\ i < Len(log)
            /\ log[i+1] = <<"onRetry", log[i][2], log[i][3]>>
  /\ \A i \in Events("wait") :
       onRetry => log[i-1] \in {<<"onRetry", log[i][2], e>> : e \in OpErrors}

C9_Witness ==
  /\ onRetry
  /\ maxAttempts = MaxAttemptsBound
  /\ rpc = "thrown"
  /\ retryResult[2] \in OpErrors
  /\ Cardinality(Events("onRetry")) = maxAttempts - 1
  /\ \E i \in Events("onRetry") : \E j \in Events("onRetry") : log[i][3] # log[j][3]

\* C10: whenever retry has failed, the operation was invoked at least once
\* and the error retry raised is the one the latest invocation rejected with,
\* for every maxAttempts (0 and negative included).
C10_FailsWithLastError ==
  rpc = "thrown" =>
    /\ Events("err") # {}
    /\ \E i \in Events("err") :
         /\ \A j \in Events("err") : j <= i
         /\ retryResult = <<"thrown", log[i][3]>>

(***************************************************************************)
(* Properties of fetchWithFallback, checked under SpecFallback.            *)
(***************************************************************************)
\* the live request of call c fails / succeeds in this step
LiveFails(c) == fpc[c] = "fetching" /\ flive'[c][1] = "err"
LiveSucceeds(c) == fpc[c] = "fetching" /\ flive'[c][1] = "ok"

\* what C11 says of the calls whose fallbackKey argument is in the set keys
ServesLatest(keys) ==
  /\ \A c \in Fetchers :
       (LiveFails(c) /\ fkey[c] \in keys /\ lastGood[fkey[c]] # NoEntry)
         => fresult'[c] = <<"returned", lastGood[fkey[c]]>>
  /\ \A c \in Fetchers :
       (LiveSucceeds(c) /\ fkey[c] \in keys)
         => /\ fallbackCache'[fkey[c]] = flive'[c][2]
            /\ fresult'[c] = <<"returned", flive'[c][2]>>
  /\ \A k \in keys :
       fallbackCache'[k] # fallbackCache[k]
         => \E c \in Fetchers : LiveSucceeds(c) /\ fkey[c] = k

\* C11: for every fallbackKey argument k that is passed (the empty string
\* included), a call with k whose live request fails returns the payload of the
\* latest successful call made with k when there was one, a successful call
\* with k leaves its payload stored under k and returns it, and a stored entry
\* changes only by such a success.
C11_FallbackServesLatest == [][ServesLatest(KeyArgs \ {NoKey})]_vars

\* C11 as amended: the same for every non-empty fallbackKey argument (an empty
\* string is falsy, so  if (fallbackKey)  treats it as no key at all).
C11_FallbackServesLatestNonEmptyKey == [][ServesLatest(KeyArgs \ {NoKey, ""})]_vars

C11_Witness ==
  /\ fallbackCache["k2"] = "p1"
  /\ \E c \in Fetchers :
       /\ fpc[c] = "done" /\ fkey[c] = "k1"
       /\ flive[c][1] = "err"
       /\ fresult[c] = <<"returned", "null">>

\* C12: a call whose live request fails leaves the cache as it was, and raises
\* the error of the live request when it has no fallbackKey or the key has no
\* entry; a call without fallbackKey never writes the cache and its outcome is
\* that of the live request alone.
C12_FailureReraises ==
  [][ /\ \A c \in Fetchers :
           LiveFails(c)
             => /\ fallbackCache' = fallbackCache
                /\ (fkey[c] = NoKey \/ fallbackCache[fkey[c]] = NoEntry)
                     => fresult'[c] = <<"thrown", flive'[c][2]>>
      /\ \A c \in Fetchers :
           (LiveSucceeds(c) /\ fkey[c] = NoKey)
             => /\ fallbackCache' = fallbackCache
                /\ fresult'[c] = <<"returned", flive'[c][2]>> ]_vars

C12_Witness ==
  /\ fallbackCache["k1"] # NoEntry
  /\ fallbackCache["k2"] = NoEntry
  /\ \E c \in Fetchers :
       /\ fpc[c] = "done" /\ fkey[c] = NoKey
       /\ flive[c][1] = "err" /\ fresult[c] = <<"thrown", flive[c][2]>>
  /\ \E c \in Fetchers :
       /\ fpc[c] = "done" /\ fkey[c] = "k2"
       /\ flive[c][1] = "err" /\ fresult[c] = <<"thrown", flive[c][2]>>

(***************************************************************************)
(* Properties of safeAsync, checked under SpecSafe.                        *)
(***************************************************************************)
\* C13: safeAsync invokes operation once and never rejects: it returns the
\* value operation resolved to, and the fallback argument when operation
\* rejected or threw.
C13_SafeAsyncNeverFails ==
  /\ sresult[1] # "thrown"
  /\ sopCalls <= 1
  /\ spc # "init" => sopCalls = 1
  /\ spc = "done" =>
       /\ sopOutcome[1] = "ok" => sresult = <<"returned", sopOutcome[2]>>
       /\ sopOutcome[1] \in {"err", "threw"} => sresult = <<"returned", sfallback>>
       /\ sopOutcome[1] \in {"ok", "err", "threw"}

C13_Witness ==
  /\ spc = "done"
  /\ sopOutcome[1] = "err"
  /\ sfallback = "fb1"
  /\ sresult = <<"returned", "fb1">>

(***************************************************************************)
(* Properties of the error classifier, checked under SpecClassify.         *)
(***************************************************************************)
\* the categories whose keywords the words of the message hold
Held == {words[i].holds : i \in 1..Len(words)}
\* the earliest of them in the order network, validation, server
Earliest ==
  IF "network" \in Held THEN "network"
  ELSE IF "validation" \in Held THEN "validation"
  ELSE IF "server" \in Held THEN "server"
  ELSE "unknown"
\* one plain message of each category
Plain(cat) ==
  CASE cat = "network" -> kwFetch
    [] cat = "validation" -> kwInvalid
    [] cat = "server" -> kw500
    [] OTHER -> <<"x">>

\* C14: classifyError returns the earliest category, in the order network,
\* validation, server, of which the message holds a keyword in any letter
\* case, and unknown when it holds none; getUserFriendlyMessage returns the
\* sentence that the bare keyword of that category gets, whatever else the
\* message holds, and the four sentences differ.
C14_FirstMatchWins ==
  /\ classified # NotCalled => classified = Earliest
  /\ friendly # NotCalled =>
       /\ friendly = getUserFriendlyMessage(Plain(Earliest))
       /\ friendly \in {sentenceNetwork, sentenceValidation, sentenceServer, sentenceDefault}
  /\ Cardinality({sentenceNetwork, sentenceValidation, sentenceServer, sentenceDefault}) = 4

C14_Witness ==
  /\ Len(words) = 2
  /\ words[1].holds = "server"
  /\ words[2].text = <<"N", "E", "T", "W", "O", "R", "K">>
  /\ classified = "network"
  /\ friendly = sentenceNetwork

(***************************************************************************)
(* Properties of the rate limiter, checked under SpecRateLimit.            *)
(***************************************************************************)
\* checkRateLimit(ip) is called in this step
Asked(ip) == verdict = NoVerdict /\ verdict' # NoVerdict /\ verdict'[1] = ip
\* the key has a record whose window has not run out
WindowOpen(ip) == rateLimitStore[ip] # NoRecord /\ clock <= rateLimitStore[ip].resetTime
\* how many of the requests at the given times lie in the window of rec
AdmittedInWindow(times, rec) ==
  Cardinality({i \in 1..Len(times) : times[i] >= rec.resetTime - windowMs})

\* C15: a request of a key whose window is running is admitted exactly when
\* fewer than 10 requests of that key were admitted in this window before, and
\* no window of any key ever holds more than 10 admitted requests.
C15_TenPerWindow ==
  [][ /\ \A ip \in ClientKeys :
           (Asked(ip) /\ WindowOpen(ip))
             => verdict'[2] =
                  (AdmittedInWindow(admitTimes[ip], rateLimitStore[ip]) < maxRequests)
      /\ \A ip \in ClientKeys :
           rateLimitStore'[ip] # NoRecord
             => AdmittedInWindow(admitTimes'[ip], rateLimitStore'[ip]) <= maxRequests ]_vars

C15_Witness ==
  \E ip \in ClientKeys :
    /\ verdict = <<ip, FALSE>>
    /\ WindowOpen(ip)
    /\ clock = rateLimitStore[ip].resetTime
    /\ AdmittedInWindow(admitTimes[ip], rateLimitStore[ip]) = maxRequests

\* C16: a request arriving with now > resetTime of its key's record is admitted
\* and replaces the record by count = 1, resetTime = now + 60 s, however full
\* the old window was; a request with now <= resetTime keeps the resetTime.
C16_NewWindowAfterReset ==
  [][ \A ip \in ClientKeys :
        (Asked(ip) /\ rateLimitStore[ip] # NoRecord)
          => IF clock > rateLimitStore[ip].resetTime
               THEN /\ verdict'[2] = TRUE
                    /\ rateLimitStore'[ip] = [count |-> 1, resetTime |-> clock + windowMs]
               ELSE rateLimitStore'[ip].resetTime = rateLimitStore[ip].resetTime ]_vars

C16_Witness ==
  \E ip \in ClientKeys :
    /\ verdict = <<ip, TRUE>>
    /\ rateLimitStore[ip] = [count |-> 1, resetTime |-> clock + windowMs]
    /\ clock = windowMs + 1
    /\ Len(admitTimes[ip]) = maxRequests

\* C17: the count of a record is always between 1 and 10; while the record
\* keeps its resetTime the count does not decrease; the count drops, and then
\* to 1, only when the record is replaced at now > resetTime, and a record
\* disappears only at now > resetTime.
C17_CountMonotone ==
  [][ \A ip \in ClientKeys :
        /\ rateLimitStore'[ip] # NoRecord
             => rateLimitStore'[ip].count \in 1..maxRequests
        /\ (rateLimitStore[ip] # NoRecord /\ rateLimitStore'[ip] # NoRecord
              /\ rateLimitStore'[ip].resetTime = rateLimitStore[ip].resetTime)
             => rateLimitStore'[ip].count >= rateLimitStore[ip].count
        /\ (rateLimitStore[ip] # NoRecord /\ rateLimitStore'[ip] # NoRecord
              /\ rateLimitStore'[ip].count < rateLimitStore[ip].count)
             => /\ clock > rateLimitStore[ip].resetTime
                /\ rateLimitStore'[ip] = [count |-> 1, resetTime |-> clock + windowMs]
        /\ (rateLimitStore[ip] # NoRecord /\ rateLimitStore'[ip] = NoRecord)
             => clock > rateLimitStore[ip].resetTime ]_vars

C17_Witness ==
  /\ rateLimitStore["unknown"].count = maxRequests
  /\ rateLimitStore["unknown"].resetTime > clock
  /\ rateLimitStore["10.0.0.1"].count = 1
  /\ rateLimitStore["10.0.0.1"].resetTime > 2 * windowMs
  /\ Len(admitTimes["10.0.0.1"]) > 1

\* C18: among the admitted requests of one key, any that lie within a span of
\* at most 60 s are at most 2 x 10 = 20 in number.
C18_BurstAtMostTwiceLimit ==
  \A ip \in ClientKeys :
    \A i \in 1..Len(admitTimes[ip]) :
      Cardinality({j \in i..Len(admitTimes[ip]) :
                     admitTimes[ip][j] - admitTimes[ip][i] <= windowMs})
        <= 2 * maxRequests

\* More than 10 admitted requests of one key within 60 s.
C18_Witness ==
  \E ip \in ClientKeys :
    /\ Len(admitTimes[ip]) > maxRequests
    /\ admitTimes[ip][Len(admitTimes[ip])] - admitTimes[ip][1] <= windowMs

(***************************************************************************)
(* Properties of the ingestion endpoint, checked under SpecIngest.         *)
(***************************************************************************)
\* request r gets the parsed body and runs to its answer in this step
BodyHandled(r) == postPc[r] = "json" /\ postPc'[r] = "done" /\ postBody'[r] # <<>>
\* the answer to r is a 400 and the log is as it was
RejectedUnlogged(r) == response'[r].status = 400 /\ clientLog' = clientLog
\* the answer to r is a success and the log has one line more, for r's report
LoggedOnce(r) ==
  /\ response'[r] = Success
  /\ Len(clientLog') = Len(clientLog) + 1
  /\ SubSeq(clientLog', 1, Len(clientLog)) = clientLog
  /\ clientLog'[Len(clientLog')] = errorLog(postBody'[r][1], postIp[r])

\* C19, as stated: a body that fails schema validation is answered 400 and
\* adds no line to the client log; a well-formed body of an admitted request
\* adds exactly one line and is answered with success.
C19_ValidLoggedInvalidRejected ==
  [][ \A r \in Requests :
        BodyHandled(r)
          => IF ErrorLogSchema(postBody'[r][1])
               THEN LoggedOnce(r)
               ELSE RejectedUnlogged(r) ]_vars

\* C19, amended: a body that fails schema validation is answered 400 and adds
\* no line; a well-formed body of an admitted request whose log write does not
\* throw adds exactly one line and is answered with success; if the write
\* throws, no line is added and the answer is not a success.
C19_ValidLoggedUnlessWriteFails ==
  [][ \A r \in Requests :
        BodyHandled(r)
          => IF ~ErrorLogSchema(postBody'[r][1])
               THEN RejectedUnlogged(r)
             ELSE IF postFault'[r] = "none"
               THEN LoggedOnce(r)
             ELSE response'[r].success = FALSE /\ clientLog' = clientLog ]_vars

C19_Witness ==
  \E r, q \in Requests :
    /\ postPc[r] = "done" /\ postBody[r] # <<>>
    /\ ErrorLogSchema(postBody[r][1])
    /\ response[r] = Success
    /\ postPc[q] = "done" /\ postBody[q] # <<>>
    /\ postBody[q][1].message.kind = "undefined"
    /\ response[q].status = 400
    /\ Len(clientLog) = 1
    /\ clientLog[1].ip = postIp[r]

\* C20: a request whose persistence step threw is answered with a 5xx status,
\* and a 4xx answer is given only to a request that was rate limited or whose
\* body could not be parsed or validated.
C20_PersistenceFailureIs5xx ==
  \A r \in Requests :
    postPc[r] = "done"
      => /\ postFault[r] # "none" => response[r].status \in 500..599
         /\ response[r].status \in 400..499 => postFault[r] = "none"

\* C21: a report that is well-formed except that its message is longer than
\* the maximum is accepted: it is answered with success and stored as one line
\* whose message is cut to the maximum.
C21_LongMessageTruncated ==
  [][ \A r \in Requests :
        (/\ BodyHandled(r)
         /\ postBody'[r][1].message.kind = "string"
         /\ postBody'[r][1].message.v > maxMessageLength
         /\ ErrorLogSchema([postBody'[r][1] EXCEPT !.message = String(maxMessageLength)]))
          => /\ response'[r] = Success
             /\ Len(clientLog') = Len(clientLog) + 1
             /\ clientLog'[Len(clientLog')].message = String(maxMessageLength) ]_vars

(***************************************************************************)
(* Properties of the two logs, checked under SpecLogs.                     *)
(***************************************************************************)
\* the payload a line of the client log was built from
payloadOf(line) ==
  [message |-> line.message, url |-> line.url, timestamp |-> line.timestamp,
   type |-> line.type]
\* new is old with nothing or with exactly one line added at its end
GrewBy01(old, new) ==
  \/ new = old
  \/ Len(new) = Len(old) + 1 /\ SubSeq(new, 1, Len(old)) = old

LiveTimers == {t \in timers : t.instance = instance}

\* C23: a notification shown at time t is visible, with its text, at every
\* time before t + autoClearTimeout unless a later show call or clearError has
\* replaced it, and a show call leaves at most one auto-clear timer pending,
\* whoever made the call.
C23_VisibleUntilTimeout ==
  mounted
    => /\ (shown.at >= 0 /\ browserNow < shown.at + autoClearTimeout)
            => notification = Toast(shownText(shown.text))
       /\ Cardinality(LiveTimers) <= 1

\* C24: once the provider has been torn down no handler is registered for
\* either hook and no auto-clear timer is pending; at no time is more than one
\* handler registered per hook.
C24_TeardownLeavesNothing ==
  /\ errorListeners <= 1
  /\ rejectionListeners <= 1
  /\ (~mounted /\ instance > 0)
       => /\ errorListeners = 0
          /\ rejectionListeners = 0
          /\ timers = {}

\* C25: the text a show function sets is no longer than maxMessageLength, and
\* is the message itself when the message is no longer than that.
C25_TextWithinMaxLength ==
  (variant = "hooks" /\ mounted /\ shown.at >= 0 /\ notification.visible)
    => /\ Len(notification.text) <= maxLengthProp
       /\ Len(shown.text) <= maxLengthProp => notification.text = shown.text

\* C26: the handler of a captured error or rejection event does not throw and
\* forwards exactly one report, however the transport ends and whatever the
\* NODE_ENV of the client is.
C26_OneReportNeverRaises ==
  captured.kind # "none" => ~captured.raised /\ captured.reports = 1


(***************************************************************************)
(* C27: what the end user sees does not depend on the raw error message.   *)
(* Outside development every 500 answer of withErrorHandler carries the    *)
(* same fixed text, whatever was thrown, and the raw message is in the     *)
(* line added to the backend log; every notification raised by a global    *)
(* hook is the fixed sentence 'Something went wrong. Please try again.'    *)
(* as showError renders it, whatever message the event carried.            *)
(***************************************************************************)
\* a global hook has called showError
HookShows == errorListeners > 0 /\ nextTimer' # nextTimer

C27_FixedTextStep ==
  /\ (apiResponse' # apiResponse /\ apiResponse'.status = 500 /\ nodeEnv # "development")
       => /\ apiResponse'.error = InternalServerError
          /\ Len(backendLog') = Len(backendLog) + 1
          /\ backendLog'[Len(backendLog')].message =
               (IF truthy(messageOf(apiThrown')) THEN messageOf(apiThrown')
                                                 ELSE "Unknown error")
  /\ (apiResponse'.status = 500 /\ nodeEnv # "development")
       => apiResponse'.error = InternalServerError
  /\ HookShows => notification' = Toast(shownText(SomethingWentWrong))

C27_UserSeesFixedText == [][C27_FixedTextStep]_vars

\* production: a thrown Error with a raw message was answered with 500 and the
\* message is in the backend log, and a hook that captured an event with a raw
\* message has raised its notification
C27_Witness ==
  /\ nodeEnv = "production"
  /\ apiThrown = ErrorOf("Database connection failed")
  /\ apiResponse.status = 500
  /\ Len(backendLog) = 1
  /\ backendLog[1].message = "Database connection failed"
  /\ captured.kind = "error"
  /\ captured.message = "x is not a function"
  /\ ~captured.raised
  /\ notification.visible


(***************************************************************************)
(* C28: under any interleaving of concurrent execute calls on one breaker  *)
(* every change of state is CLOSED -> OPEN, OPEN -> HALF_OPEN,             *)
(* HALF_OPEN -> CLOSED or HALF_OPEN -> OPEN; the breaker never goes from   *)
(* OPEN to CLOSED directly, also when an operation that started before    *)
(* the breaker opened completes afterwards.                                *)
(***************************************************************************)
AllowedTransitions ==
  { <<"CLOSED", "OPEN">>, <<"OPEN", "HALF_OPEN">>,
    <<"HALF_OPEN", "CLOSED">>, <<"HALF_OPEN", "OPEN">> }

C28_OnlyAllowedTransitions ==
  [][state' # state => <<state, state'>> \in AllowedTransitions]_vars


(***************************************************************************)
(* C29: a rate-limited request is answered with 429, leaves its own key's  *)
(* record and every other key's record as they were, and writes nothing   *)
(* to the log.  The periodic sweep deletes only records whose resetTime   *)
(* has passed (now > resetTime), so for every key the admit / reject      *)
(* decision, and the record the decision leaves, are the same right after *)
(* a sweep as they would have been without it.                            *)
(***************************************************************************)
RateLimited(r) == postPc[r] = "idle" /\ postPc'[r] = "done"

Swept == nextSweep' # nextSweep

C29_RejectAndSweepStep ==
  /\ \A r \in Requests :
       RateLimited(r) =>
         /\ response'[r].status = 429
         /\ rateLimitStore' = rateLimitStore
         /\ clientLog' = clientLog
  /\ Swept =>
       \A k \in ClientKeys :
         /\ rateLimitStore'[k] # rateLimitStore[k]
              => /\ rateLimitStore[k] # NoRecord
                 /\ clock > rateLimitStore[k].resetTime
                 /\ rateLimitStore'[k] = NoRecord
         /\ checkRateLimit(k)' = checkRateLimit(k)
         /\ storeAfterCheck(k)'[k] = storeAfterCheck(k)[k]

C29_RejectedAndSweepLeaveDecisions == [][C29_RejectAndSweepStep]_vars

\* a request was answered with 429 and left its key's full record in place,
\* and the sweep has since run and deleted that record, by then expired
C29_Witness ==
  \E r \in Requests :
    /\ response[r].status = 429
    /\ clientLog = <<>>
    /\ nextSweep > windowMs + 1
    /\ rateLimitStore[postIp[r]] = NoRecord


(***************************************************************************)
(* C30: for each error key debouncedErrorReport invokes reportFn at most   *)
(* once in any 5000 ms window: a call is delivered only if no call for    *)
(* that key was delivered in the preceding 5000 ms, a suppressed call     *)
(* does not extend the window (the key's entry stays as it was), and a    *)
(* call for one key changes nothing of the other keys.                    *)
(***************************************************************************)
\* debouncedErrorReport is called for key k in this step, and reportFn is invoked
Delivered(k) == reported'[k] # reported[k]
Suppressed(k) ==
  /\ lastReportCall' # lastReportCall
  /\ lastReportCall'.key = k
  /\ lastReportCall'.outcome = "suppressed"

C30_DebounceStep ==
  \A k \in ErrorKeys :
    /\ Delivered(k) =>
         /\ \A i \in 1..Len(reported[k]) :
              reported[k][i] < debounceNow - ERROR_REPORT_DEBOUNCE
         /\ Len(reported'[k]) = Len(reported[k]) + 1
    /\ Suppressed(k) => errorReportQueue'[k] = errorReportQueue[k]
    /\ (Delivered(k) \/ Suppressed(k)) =>
         \A other \in ErrorKeys \ {k} :
           /\ errorReportQueue'[other] = errorReportQueue[other]
           /\ reported'[other] = reported[other]
    \* at most one invocation in any window of 5000 ms
    /\ \A i, j \in 1..Len(reported'[k]) :
         i < j => reported'[k][j] - reported'[k][i] > ERROR_REPORT_DEBOUNCE

C30_AtMostOncePerWindow == [][C30_DebounceStep]_vars

\* a key was delivered, then suppressed exactly 5000 ms later, and the other
\* key was delivered inside the first key's window
C30_Witness ==
  \E k \in ErrorKeys : \E other \in ErrorKeys \ {k} :
    /\ Len(reported[k]) = 1
    /\ lastReportCall = [key |-> k, at |-> reported[k][1] + ERROR_REPORT_DEBOUNCE,
                         outcome |-> "suppressed"]
    /\ Len(reported[other]) >= 1
    /\ reported[other][1] - reported[k][1] \in 1..ERROR_REPORT_DEBOUNCE

====
